---- MODULE Spec2Model ----
(***************************************************************************)
(* Gaucho Insights: the data-loading pipeline of main_app.py               *)
(* (load_and_clean_data) and the helpers it is built from.                 *)
(*                                                                         *)
(* Text is a sequence of one-character strings, so that str.upper,         *)
(* str.strip, str.split and re.search(r'(\d+)') are computed, not assumed. *)
(* A GPA or a rating is an integer number of tenths (3.5 is 35); a mean    *)
(* is the exact fraction [n |-> sum, d |-> count] (floating-point rounding *)
(* is not modelled).                                                       *)
(***************************************************************************)
EXTENDS Integers, Sequences, FiniteSets, TLC

VARIABLES
    pc,          \* position in load_and_clean_data, or in a helper's call
    gradeExists, \* find_file('courseGrades.csv') found a path
    rmpExists,   \* find_file('rmp_final_data.csv') found a path
    gradeFile,   \* rows of courseGrades.csv, in file order
    rmpFile,     \* rows of rmp_final_data.csv, in file order
    df,          \* the data frame being built, in row order
    rmpCols,     \* the frame has the rmp_* columns (a merge took place)
    error,       \* "none", or the exception / halt that ended the call
    arg,         \* argument of the helper under call
    ret,         \* value the helper returned
    sessions,    \* the dashboard sessions: each one's session_state and locals of main()
    inputCsv,    \* rows of data/rmp_search_results.csv, in file order
    results,     \* rmp_deep_miner.main's list of combined rows
    outputCsv    \* rows of data/rmp_final_data.csv, or NoFile

vars == <<pc, gradeExists, rmpExists, gradeFile, rmpFile, df, rmpCols, error, arg, ret,
          sessions, inputCsv, results, outputCsv>>

\* What the dashboard sessions and the miner own
others == <<sessions, inputCsv, results, outputCsv>>

(***************************************************************************)
(* Text                                                                    *)
(***************************************************************************)

\* pandas' NaN in a text column, in a numeric column, in an opaque column.
NaNText == <<"NaN">>
NaNNum == -1
NaNAtom == "NaN"

isna(x) == x = NaNText

LowerChars == <<"a","b","c","d","e","f","g","h","i","j","k","l","m",
                "n","o","p","q","r","s","t","u","v","w","x","y","z">>
UpperChars == <<"A","B","C","D","E","F","G","H","I","J","K","L","M",
                "N","O","P","Q","R","S","T","U","V","W","X","Y","Z">>
DigitChars == <<"0","1","2","3","4","5","6","7","8","9">>
SpaceChars == {" ", "\t"}

\* The characters in code-point order (what pandas sorts text by).
CharOrder == <<"\t", " ", "'", "-", ".">> \o DigitChars \o UpperChars \o LowerChars

Range(s) == {s[i] : i \in DOMAIN s}

IndexOf(c, s) == CHOOSE i \in DOMAIN s : s[i] = c

IsDigit(c) == c \in Range(DigitChars)

DigitValue(c) == IndexOf(c, DigitChars) - 1

UpperChar(c) == IF c \in Range(LowerChars) THEN UpperChars[IndexOf(c, LowerChars)] ELSE c

\* str.upper()
Upper(s) == [i \in DOMAIN s |-> UpperChar(s[i])]

\* str(x) of a cell: NaN prints as "nan"
Str(x) == IF isna(x) THEN <<"n","a","n">> ELSE x

RECURSIVE LStrip(_)
LStrip(s) ==
    IF s # <<>> /\ Head(s) \in SpaceChars THEN LStrip(Tail(s)) ELSE s

RECURSIVE RStrip(_)
RStrip(s) ==
    IF s # <<>> /\ s[Len(s)] \in SpaceChars THEN RStrip(SubSeq(s, 1, Len(s) - 1)) ELSE s

\* str.strip()
Strip(s) == RStrip(LStrip(s))

\* The first token of a text that starts with a non-space character.
RECURSIVE TakeToken(_)
TakeToken(s) ==
    IF s = <<>> \/ Head(s) \in SpaceChars THEN <<>> ELSE <<Head(s)>> \o TakeToken(Tail(s))

\* str.split(): the maximal runs of non-space characters, in order.
RECURSIVE Split(_)
Split(s) ==
    LET t == LStrip(s)
        w == TakeToken(t)
    IN  IF t = <<>> THEN <<>> ELSE <<w>> \o Split(SubSeq(t, Len(w) + 1, Len(t)))

RECURSIVE DropToDigit(_)
DropToDigit(s) ==
    IF s = <<>> \/ IsDigit(Head(s)) THEN s ELSE DropToDigit(Tail(s))

RECURSIVE TakeDigits(_)
TakeDigits(s) ==
    IF s = <<>> \/ ~IsDigit(Head(s)) THEN <<>> ELSE <<Head(s)>> \o TakeDigits(Tail(s))

\* int() of a run of digits
RECURSIVE ToInt(_)
ToInt(ds) ==
    IF ds = <<>> THEN 0 ELSE 10 * ToInt(SubSeq(ds, 1, Len(ds) - 1)) + DigitValue(ds[Len(ds)])

\* re.search(r'(\d+)', s): the first maximal run of digits, <<>> when there is none
FirstDigits(s) == TakeDigits(DropToDigit(s))

\* s < t in code-point order
RECURSIVE TextLess(_, _)
TextLess(s, t) ==
    IF t = <<>> THEN FALSE
    ELSE IF s = <<>> THEN TRUE
    ELSE IF Head(s) = Head(t) THEN TextLess(Tail(s), Tail(t))
    ELSE IndexOf(Head(s), CharOrder) < IndexOf(Head(t), CharOrder)

(***************************************************************************)
(* Course filter                                                           *)
(***************************************************************************)

\* None of get_course_num: no digits in the label
NoCourseNum == -1

\* main_app.get_course_num
get_course_num(course_str) ==
    LET ds == FirstDigits(Str(course_str))
    IN  IF ds = <<>> THEN NoCourseNum ELSE ToInt(ds)

\* main_app.py lines 41-42: the rows the course filter keeps
KeepCourse(course_str) ==
    LET n == get_course_num(course_str)
    IN  n # NoCourseNum /\ n <= 198 /\ n # 99

\* pstat_logic.get_num
get_num(s) ==
    LET ds == FirstDigits(Str(s))
    IN  IF ds = <<>> THEN 0 ELSE ToInt(ds)

\* pstat_logic.process_pstat line 14
KeepPstatCourse(s) == get_num(s) < 199

(***************************************************************************)
(* Identity keys                                                           *)
(***************************************************************************)

UNKNOWN == <<"U","N","K","N","O","W","N">>

\* parts[0] of an empty list: both key functions raise IndexError
KeyRaises(name) == ~isna(name) /\ Split(Upper(name)) = <<>>

\* main_app.get_registrar_key (where it does not raise)
get_registrar_key(name) ==
    IF isna(name) THEN UNKNOWN
    ELSE LET parts == Split(Upper(name))
         IN  parts[1] \o (IF Len(parts) > 1 THEN <<parts[2][1]>> ELSE <<>>)

\* get_rmp_key taking the second token for the last name (parts[1] for parts[-1])
get_rmp_key_second_token(name) ==
    IF isna(name) THEN UNKNOWN
    ELSE LET parts == Split(Upper(name))
         IN  IF Len(parts) > 1 THEN parts[2] \o <<parts[1][1]>> ELSE parts[1]

\* main_app.get_rmp_key (where it does not raise)
get_rmp_key(name) ==
    IF isna(name) THEN UNKNOWN
    ELSE LET parts == Split(Upper(name))
         IN  parts[Len(parts)] \o (IF Len(parts) > 1 THEN <<parts[1][1]>> ELSE <<>>)

(***************************************************************************)
(* Terms                                                                   *)
(***************************************************************************)

FALL == <<"F","A","L","L">>
SUMMER == <<"S","U","M","M","E","R">>
SPRING == <<"S","P","R","I","N","G">>
WINTER == <<"W","I","N","T","E","R">>

\* df[col].astype(str).str.upper().str.strip()
NormalizeText(cell) == Strip(Upper(Str(cell)))

\* q_map with the ranks of SUMMER and SPRING exchanged
QScoreSwapped(quarter) ==
    CASE quarter = FALL -> 4
      [] quarter = SUMMER -> 2
      [] quarter = SPRING -> 3
      [] quarter = WINTER -> 1
      [] OTHER -> 0

\* df['quarter'].map(q_map).fillna(0)
QScore(quarter) ==
    CASE quarter = FALL -> 4
      [] quarter = SUMMER -> 3
      [] quarter = SPRING -> 2
      [] quarter = WINTER -> 1
      [] OTHER -> 0

(***************************************************************************)
(* Data frames                                                             *)
(***************************************************************************)

Letters == {"a", "b", "c", "d", "f"}

\* A frame row of pd.read_csv(csv_path), with the columns the later steps
\* add (course_num_val, join_key, the rmp_* columns, q_score) not yet set.
FrameRow(g) ==
    [instructor |-> g.instructor, quarter |-> g.quarter, year |-> g.year,
     course |-> g.course, dept |-> g.dept,
     gpa |-> [n |-> g.gpa, d |-> 1], letters |-> g.letters,
     course_num_val |-> NoCourseNum, join_key |-> <<>>,
     rmp_rating |-> NaNNum, rmp_difficulty |-> NaNNum, rmp_take_again |-> NaNNum,
     rmp_tags |-> NaNAtom, rmp_url |-> NaNAtom, q_score |-> 0]

SeqMap(Op(_), s) == [i \in DOMAIN s |-> Op(s[i])]

RECURSIVE Flatten(_)
Flatten(ss) == IF ss = <<>> THEN <<>> ELSE Head(ss) \o Flatten(Tail(ss))

\* lines 40-42: course_num_val, then the two filters
FilterCourses(rows) ==
    SelectSeq(SeqMap(LAMBDA r : [r EXCEPT !.course_num_val = get_course_num(r.course)], rows),
              LAMBDA r : KeepCourse(r.course))

\* line 54
WithJoinKeys(rows) ==
    SeqMap(LAMBDA r : [r EXCEPT !.join_key = get_registrar_key(r.instructor)], rows)

\* lines 57-67: the rating rows with their rmp_join_key
RmpKeyed(ratings) ==
    SeqMap(LAMBDA r : [instructor_rmp |-> r.instructor, rmp_rating |-> r.rating,
                       rmp_difficulty |-> r.difficulty, rmp_take_again |-> r.take_again,
                       rmp_tags |-> r.tags, rmp_url |-> r.url,
                       rmp_join_key |-> get_rmp_key(r.instructor)], ratings)

AttachRating(row, m) ==
    [row EXCEPT !.rmp_rating = m.rmp_rating, !.rmp_difficulty = m.rmp_difficulty,
                !.rmp_take_again = m.rmp_take_again, !.rmp_tags = m.rmp_tags,
                !.rmp_url = m.rmp_url]

\* line 68, for one left row: one output row per rating row of the same key, in
\* the rating file's order; the row itself, ratings NaN, when no key matches
MergeRow(row, keyed) ==
    LET matches == SelectSeq(keyed, LAMBDA m : m.rmp_join_key = row.join_key)
    IN  IF matches = <<>> THEN <<row>> ELSE SeqMap(LAMBDA m : AttachRating(row, m), matches)

\* line 68: pd.merge(df, rmp_df, left_on='join_key', right_on='rmp_join_key', how='left')
MergeLeft(rows, keyed) == Flatten(SeqMap(LAMBDA r : MergeRow(r, keyed), rows))

\* lines 70-72
NormalizeColumns(rows) ==
    SeqMap(LAMBDA r : [r EXCEPT !.instructor = NormalizeText(r.instructor),
                                !.quarter = NormalizeText(r.quarter),
                                !.course = NormalizeText(r.course),
                                !.dept = NormalizeText(r.dept)], rows)

\* line 76
GroupKey(r) == <<r.instructor, r.join_key, r.quarter, r.year, r.course, r.dept>>

\* The order groupby(sort=True) lists its groups in: by key, column after column.
KeyLess(k1, k2) ==
    \E j \in 1..6 :
        /\ \A i \in 1..(j - 1) : k1[i] = k2[i]
        /\ IF j = 4 THEN k1[j] < k2[j] ELSE TextLess(k1[j], k2[j])

RECURSIVE SortKeys(_)
SortKeys(ks) ==
    IF ks = {} THEN <<>>
    ELSE LET k == CHOOSE x \in ks : \A y \in ks \ {x} : KeyLess(x, y)
         IN  <<k>> \o SortKeys(ks \ {k})

RECURSIVE SumSeq(_)
SumSeq(s) == IF s = <<>> THEN 0 ELSE Head(s) + SumSeq(Tail(s))

\* GroupBy 'first': the first value of the column that is not NaN
FirstValid(col, nan) ==
    LET valid == SelectSeq(col, LAMBDA v : v # nan)
    IN  IF valid = <<>> THEN nan ELSE Head(valid)

\* lines 77-82, for one group: mean of the GPA, sums of the letter counts, and
\* 'first' of each rmp_* column the frame has
AggregateGroup(k, rows, hasRmp) ==
    LET members == SelectSeq(rows, LAMBDA r : GroupKey(r) = k)
        col(F(_)) == SeqMap(F, members)
    IN  [instructor |-> k[1], join_key |-> k[2], quarter |-> k[3], year |-> k[4],
         course |-> k[5], dept |-> k[6],
         gpa |-> [n |-> SumSeq(col(LAMBDA r : r.gpa.n)), d |-> Len(members)],
         letters |-> [l \in Letters |-> SumSeq(col(LAMBDA r : r.letters[l]))],
         course_num_val |-> NoCourseNum,
         rmp_rating |-> IF hasRmp THEN FirstValid(col(LAMBDA r : r.rmp_rating), NaNNum) ELSE NaNNum,
         rmp_difficulty |-> IF hasRmp THEN FirstValid(col(LAMBDA r : r.rmp_difficulty), NaNNum) ELSE NaNNum,
         rmp_take_again |-> IF hasRmp THEN FirstValid(col(LAMBDA r : r.rmp_take_again), NaNNum) ELSE NaNNum,
         rmp_tags |-> IF hasRmp THEN FirstValid(col(LAMBDA r : r.rmp_tags), NaNAtom) ELSE NaNAtom,
         rmp_url |-> IF hasRmp THEN FirstValid(col(LAMBDA r : r.rmp_url), NaNAtom) ELSE NaNAtom,
         q_score |-> 0]

\* line 82: groupby drops the rows with a NaN group key (dropna=True); the text
\* keys are strings by now, so that is the rows without a year
GroupAgg(rows, hasRmp) ==
    LET kept == SelectSeq(rows, LAMBDA r : r.year # NaNNum)
        keys == SortKeys({GroupKey(kept[i]) : i \in DOMAIN kept})
    IN  SeqMap(LAMBDA k : AggregateGroup(k, kept, hasRmp), keys)

\* line 84
WithQScore(rows) == SeqMap(LAMBDA r : [r EXCEPT !.q_score = QScore(r.quarter)], rows)

\* sort_values(by=['year']) only
TermBeforeYearOnly(a, b) == a.year > b.year

\* (year, q_score) of row a sorts before that of row b, ascending=False
TermBefore(a, b) == a.year > b.year \/ (a.year = b.year /\ a.q_score > b.q_score)

\* line 85: sort_values(by=['year', 'q_score'], ascending=False); rows with the
\* same year and q_score keep their order
RECURSIVE SortValues(_)
SortValues(rows) ==
    IF rows = <<>> THEN <<>>
    ELSE LET i == CHOOSE x \in DOMAIN rows :
                      /\ \A y \in DOMAIN rows : ~TermBefore(rows[y], rows[x])
                      /\ \A y \in 1..(x - 1) : TermBefore(rows[x], rows[y])
         IN  <<rows[i]>> \o SortValues(SubSeq(rows, 1, i - 1) \o SubSeq(rows, i + 1, Len(rows)))

(***************************************************************************)
(* load_and_clean_data, step by step                                       *)
(***************************************************************************)

\* lines 26-34 without the test of csv_path: pd.read_csv of no path raises
ReadGradesUnguarded ==
    /\ pc = "start"
    /\ IF gradeExists
       THEN /\ df' = SeqMap(FrameRow, gradeFile)
            /\ pc' = "read"
            /\ error' = error
       ELSE /\ df' = df
            /\ pc' = "raised"
            /\ error' = "ValueError"
    /\ UNCHANGED <<gradeExists, rmpExists, gradeFile, rmpFile, rmpCols, arg, ret, others>>

\* lines 26-34: the grade file is looked up and read; without it st.error,
\* st.stop
ReadGrades ==
    /\ pc = "start"
    /\ IF gradeExists
       THEN /\ df' = SeqMap(FrameRow, gradeFile)
            /\ pc' = "read"
            /\ error' = error
       ELSE /\ df' = df
            /\ pc' = "stopped"
            /\ error' = "MissingGrades"
    /\ UNCHANGED <<gradeExists, rmpExists, gradeFile, rmpFile, rmpCols, arg, ret, others>>

\* lines 36-42
DropCourses ==
    /\ pc = "read"
    /\ df' = FilterCourses(df)
    /\ pc' = "filtered"
    /\ UNCHANGED <<gradeExists, rmpExists, gradeFile, rmpFile, rmpCols, error, arg, ret, others>>

\* lines 44-54: apply(get_registrar_key) raises on the first name without a token
JoinKeys ==
    /\ pc = "filtered"
    /\ IF \E i \in DOMAIN df : KeyRaises(df[i].instructor)
       THEN /\ df' = df
            /\ pc' = "raised"
            /\ error' = "IndexError"
       ELSE /\ df' = WithJoinKeys(df)
            /\ pc' = "keyed"
            /\ error' = error
    /\ UNCHANGED <<gradeExists, rmpExists, gradeFile, rmpFile, rmpCols, arg, ret, others>>

\* lines 56-68 without the test of rmp_path: pd.read_csv of no path raises
MergeRatingsUnguarded ==
    /\ pc = "keyed"
    /\ IF rmpExists
       THEN /\ df' = MergeLeft(df, RmpKeyed(rmpFile))
            /\ rmpCols' = TRUE
            /\ pc' = "merged"
            /\ error' = error
       ELSE /\ df' = df
            /\ rmpCols' = rmpCols
            /\ pc' = "raised"
            /\ error' = "ValueError"
    /\ UNCHANGED <<gradeExists, rmpExists, gradeFile, rmpFile, arg, ret, others>>

\* lines 56-68: only when the rating file was found
MergeRatings ==
    /\ pc = "keyed"
    /\ IF rmpExists
       THEN IF \E i \in DOMAIN rmpFile : KeyRaises(rmpFile[i].instructor)
            THEN /\ df' = df
                 /\ rmpCols' = rmpCols
                 /\ pc' = "raised"
                 /\ error' = "IndexError"
            ELSE /\ df' = MergeLeft(df, RmpKeyed(rmpFile))
                 /\ rmpCols' = TRUE
                 /\ pc' = "merged"
                 /\ error' = error
       ELSE /\ df' = df
            /\ rmpCols' = rmpCols
            /\ pc' = "merged"
            /\ error' = error
    /\ UNCHANGED <<gradeExists, rmpExists, gradeFile, rmpFile, arg, ret, others>>

\* lines 70-72
Normalize ==
    /\ pc = "merged"
    /\ df' = NormalizeColumns(df)
    /\ pc' = "normalized"
    /\ UNCHANGED <<gradeExists, rmpExists, gradeFile, rmpFile, rmpCols, error, arg, ret, others>>

\* lines 74-82
Aggregate ==
    /\ pc = "normalized"
    /\ df' = GroupAgg(df, rmpCols)
    /\ pc' = "grouped"
    /\ UNCHANGED <<gradeExists, rmpExists, gradeFile, rmpFile, rmpCols, error, arg, ret, others>>

\* lines 83-87
SortAndReturn ==
    /\ pc = "grouped"
    /\ df' = SortValues(WithQScore(df))
    /\ pc' = "done"
    /\ UNCHANGED <<gradeExists, rmpExists, gradeFile, rmpFile, rmpCols, error, arg, ret, others>>

Next ==
    \/ ReadGrades
    \/ DropCourses
    \/ JoinKeys
    \/ MergeRatings
    \/ Normalize
    \/ Aggregate
    \/ SortAndReturn

(***************************************************************************)
(* Input files                                                             *)
(***************************************************************************)

MaxGrades == 3
MaxRatings == 2
MaxTermRows == 3

SeqsUpTo(S, n) == UNION {[1..k -> S] : k \in 0..n}

SOLIS_J == <<"S","O","L","I","S"," ","J">>
LEE_K == <<"L","E","E"," ","K">>
JORGE_SOLIS == <<"J","O","R","G","E"," ","S","O","L","I","S">>
JUAN_SOLIS == <<"J","U","A","N"," ","S","O","L","I","S">>
JANE_SOLIS == <<"J","A","N","E"," ","S","O","L","I","S">>
KAI_LEE == <<"K","A","I"," ","L","E","E">>
ANA_DIAZ == <<"A","N","A"," ","D","I","A","Z">>
PSTAT == <<"P","S","T","A","T">>
PSTAT_120A == <<"P","S","T","A","T"," ","1","2","0","A">>
PSTAT_10 == <<"P","S","T","A","T"," ","1","0">>
PSTAT_199 == <<"P","S","T","A","T"," ","1","9","9">>

Counts(a, b, c, d, f) == [l \in Letters |->
    CASE l = "a" -> a [] l = "b" -> b [] l = "c" -> c [] l = "d" -> d [] OTHER -> f]

Grade(i, q, y, c, g, n) ==
    [instructor |-> i, quarter |-> q, year |-> y, course |-> c, dept |-> PSTAT,
     gpa |-> g, letters |-> n]

Rating(i, r, d, t, tags, url) ==
    [instructor |-> i, rating |-> r, difficulty |-> d, take_again |-> t,
     tags |-> tags, url |-> url]

\* Three sections of one course by one instructor in one term, and a section
\* of another instructor.
GradePool ==
    { Grade(SOLIS_J, FALL, 2024, PSTAT_120A, 30, Counts(5, 2, 0, 0, 0)),
      Grade(SOLIS_J, FALL, 2024, PSTAT_120A, 36, Counts(3, 4, 1, 0, 0)),
      Grade(SOLIS_J, FALL, 2024, PSTAT_120A, 39, Counts(8, 0, 0, 0, 1)),
      Grade(LEE_K, WINTER, 2024, PSTAT_10, 33, Counts(4, 3, 2, 1, 0)) }

\* Three rating rows with the key SOLISJ (one of them without a rating), one
\* with the key LEEK, one that matches no grade row.
RatingPool ==
    { Rating(JORGE_SOLIS, 30, 20, 80, "tough grader", "rmp/1"),
      Rating(JUAN_SOLIS, 45, 35, 90, "caring", "rmp/2"),
      Rating(JANE_SOLIS, NaNNum, 40, NaNNum, NaNAtom, "rmp/3"),
      Rating(KAI_LEE, 40, 25, 70, "hilarious", "rmp/4"),
      Rating(ANA_DIAZ, 50, 10, 100, "respected", "rmp/5") }

NoHelper == <<>>

\* No file at the path, and a file of rows
NoFile == [exists |-> FALSE, rows |-> <<>>]
File(rows) == [exists |-> TRUE, rows |-> rows]

\* No dashboard session is open and the miner has not run
NoOthers ==
    /\ sessions = <<>>
    /\ inputCsv = <<>>
    /\ results = <<>>
    /\ outputCsv = NoFile

InitFiles(grades, ratings) ==
    /\ pc = "start"
    /\ gradeExists \in BOOLEAN
    /\ rmpExists \in BOOLEAN
    /\ gradeFile \in (IF gradeExists THEN grades ELSE {<<>>})
    /\ rmpFile \in (IF rmpExists THEN ratings ELSE {<<>>})
    /\ df = <<>>
    /\ rmpCols = FALSE
    /\ error = "none"
    /\ arg = NoHelper
    /\ ret = NoHelper
    /\ NoOthers

\* The rating files the scrapers write: drop_duplicates(subset=['instructor'])
\* leaves no instructor name twice
RatingFiles(pool, n) ==
    {file \in SeqsUpTo(pool, n) :
        \A i, j \in DOMAIN file : i # j => file[i].instructor # file[j].instructor}

Init == InitFiles(SeqsUpTo(GradePool, MaxGrades), RatingFiles(RatingPool, MaxRatings))

Spec == Init /\ [][Next]_vars

(***************************************************************************)
(* Grade files with resolved, partly resolved and unresolved terms, and    *)
(* with missing names                                                      *)
(***************************************************************************)

BLANK == <<" ", " ">>
F24 == <<"F","2","4">>
TBD == <<"?","?","?">>
winter_ == <<"w","i","n","t","e","r"," ">>

TermPool ==
    { Grade(SOLIS_J, FALL, 2024, PSTAT_120A, 30, Counts(5, 2, 0, 0, 0)),
      Grade(LEE_K, FALL, 2024, PSTAT_10, 25, Counts(1, 2, 3, 0, 0)),
      Grade(LEE_K, winter_, 2024, PSTAT_10, 39, Counts(9, 1, 0, 0, 0)),
      Grade(LEE_K, FALL, 2023, PSTAT_10, 35, Counts(4, 3, 2, 1, 0)),
      Grade(SOLIS_J, F24, 2024, PSTAT_120A, 31, Counts(2, 2, 0, 0, 0)),
      Grade(SOLIS_J, FALL, NaNNum, PSTAT_120A, 32, Counts(3, 1, 0, 0, 0)),
      Grade(SOLIS_J, TBD, NaNNum, PSTAT_120A, 34, Counts(1, 1, 0, 0, 0)),
      Grade(BLANK, FALL, 2024, PSTAT_10, 28, Counts(2, 1, 1, 0, 0)),
      Grade(NaNText, NaNText, 2023, PSTAT_10, 37, Counts(6, 0, 0, 0, 0)),
      Grade(LEE_K, SPRING, 2024, PSTAT_199, 40, Counts(7, 0, 0, 0, 0)) }

InitTerms ==
    InitFiles(SeqsUpTo(TermPool, MaxTermRows),
              {<<Rating(JORGE_SOLIS, 30, 20, 80, "tough grader", "rmp/1")>>})

SpecTerms == InitTerms /\ [][Next]_vars

(***************************************************************************)
(* The helpers, called on their own                                        *)
(***************************************************************************)

InitHelper(at, args) ==
    /\ pc = at
    /\ arg \in args
    /\ ret = NoHelper
    /\ gradeExists = FALSE
    /\ rmpExists = FALSE
    /\ gradeFile = <<>>
    /\ rmpFile = <<>>
    /\ df = <<>>
    /\ rmpCols = FALSE
    /\ error = "none"
    /\ NoOthers

Return(at, value) ==
    /\ ret' = value
    /\ pc' = at
    /\ UNCHANGED <<gradeExists, rmpExists, gradeFile, rmpFile, df, rmpCols, error, arg, others>>

\* n in decimal digits
RECURSIVE Decimal(_)
Decimal(n) ==
    IF n < 10 THEN <<DigitChars[n + 1]>>
    ELSE Decimal(n \div 10) \o <<DigitChars[(n % 10) + 1]>>

\* ---- the course filter: main_app.py lines 36-42, pstat_logic.py lines 9-14

MaxCourseNum == 250

\* Course labels written with the number num (a department before it, a letter,
\* a section number or nothing after it, a leading zero or none), and labels
\* without a digit (num is NoCourseNum).
CourseArgs ==
    { [course |-> pre \o zero \o Decimal(n) \o post, num |-> n] :
        pre \in {<<>>, PSTAT \o <<" ">>}, zero \in {<<>>, <<"0">>},
        n \in 0..MaxCourseNum, post \in {<<>>, <<"A">>, <<"B", "L", " ", "2">>} }
    \cup { [course |-> c, num |-> NoCourseNum] : c \in {<<>>, PSTAT, PSTAT \o <<" ", "A">>, NaNText} }

CallCourseFilter ==
    /\ pc = "call_course"
    /\ Return("ret_course", [num |-> get_course_num(arg.course),
                             kept |-> KeepCourse(arg.course),
                             pstat |-> KeepPstatCourse(arg.course)])

SpecCourse == InitHelper("call_course", CourseArgs) /\ [][CallCourseFilter]_vars

\* ---- the identity keys: main_app.py lines 44-52

MaxNameLen == 2
MaxMiddle == 1

NameChars == {"L", "e", "j", "-"}
NameTokens == UNION {[1..k -> NameChars] : k \in 1..MaxNameLen}
MiddleNames == {<<"M", ".">>, <<"d", "e">>}

RECURSIVE JoinWith(_, _)
JoinWith(tokens, sep) ==
    IF Len(tokens) = 1 THEN Head(tokens)
    ELSE Head(tokens) \o sep \o JoinWith(Tail(tokens), sep)

\* One person in the two files: "LAST F" in the grade file, "FIRST [MIDDLE ...]
\* LAST" in the rating file.
KeyArgs ==
    { [last |-> l, first |-> f, middle |-> m,
       registrar |-> JoinWith(<<l, <<f[1]>> >>, sep),
       rmp |-> JoinWith(<<f>> \o m \o <<l>>, sep)] :
        l \in NameTokens, f \in NameTokens, m \in SeqsUpTo(MiddleNames, MaxMiddle),
        sep \in {<<" ">>, <<" ", " ">>} }

CallKeys ==
    /\ pc = "call_keys"
    /\ Return("ret_keys", [registrar |-> get_registrar_key(arg.registrar),
                           rmp |-> get_rmp_key(arg.rmp)])

SpecKeys == InitHelper("call_keys", KeyArgs) /\ [][CallKeys]_vars

\* ---- the term of a row: main_app.py lines 72, 83-85

LastYear == 2024
Years == 2023..LastYear

\* The seasons by rank: Winter=1, Spring=2, Summer=3, Fall=4
Seasons == <<WINTER, SPRING, SUMMER, FALL>>

LowerChar(c) == IF c \in Range(UpperChars) THEN LowerChars[IndexOf(c, UpperChars)] ELSE c
Lower(s) == [i \in DOMAIN s |-> LowerChar(s[i])]

\* The ways the quarter cell spells the season alone
Keywords(name) ==
    { name, Lower(name), <<Head(name)>> \o Lower(Tail(name)),
      <<" ">> \o name, Lower(name) \o <<"\t">> }

\* The quarter cell of a row of season rank s, year y (the year column holds y):
\* the season alone, or an encoding that carries the year too
TermArgs ==
    UNION { { [quarter |-> q, year |-> y, season |-> s, form |-> "keyword"] :
                q \in Keywords(Seasons[s]) } :
            s \in DOMAIN Seasons, y \in Years }
    \cup UNION { { [quarter |-> Seasons[s] \o <<" ">> \o Decimal(y), year |-> y,
                    season |-> s, form |-> "keyword year"],
                   [quarter |-> Decimal(y) \o <<" ">> \o Seasons[s], year |-> y,
                    season |-> s, form |-> "year keyword"],
                   [quarter |-> <<Head(Seasons[s])>> \o Decimal(y % 100), year |-> y,
                    season |-> s, form |-> "abbreviation"],
                   [quarter |-> Decimal(y) \o Decimal(s), year |-> y,
                    season |-> s, form |-> "code"] } :
                 s \in DOMAIN Seasons, y \in Years }

CallTermKey ==
    /\ pc = "call_term"
    /\ Return("ret_term", [year |-> arg.year,
                           q_score |-> QScore(NormalizeText(arg.quarter))])

SpecTerm == InitHelper("call_term", TermArgs) /\ [][CallTermKey]_vars

(***************************************************************************)
(* lookup.py: load_data and search                                         *)
(***************************************************************************)

\* The value a call returned: None, or a value
None == [none |-> TRUE]
Some(value) == [none |-> FALSE, value |-> value]

\* Series.str.strip(): a NaN cell stays NaN
StrStrip(cell) == IF isna(cell) THEN cell ELSE Strip(cell)

\* The .str accessor of a column read without a single text cell (rows, all of
\* them NaN: dtype float64) raises AttributeError
StrRaises(rows, col) == rows # <<>> /\ \A i \in DOMAIN rows : isna(rows[i][col])

\* lookup.py lines 11-13
StripNames(rows) ==
    SeqMap(LAMBDA g : [g EXCEPT !.instructor = StrStrip(g.instructor),
                                !.course = StrStrip(g.course)], rows)

\* sub occurs in s
Contains(sub, s) ==
    \E i \in 1..(Len(s) - Len(sub) + 1) : SubSeq(s, i, i + Len(sub) - 1) = sub

\* Series.str.contains(pat, na=False), pat without regex metacharacters
StrContains(cell, pat) == ~isna(cell) /\ Contains(pat, cell)

RECURSIVE SortTexts(_)
SortTexts(ts) ==
    IF ts = {} THEN <<>>
    ELSE LET t == CHOOSE x \in ts : \A y \in ts \ {x} : TextLess(x, y)
         IN  <<t>> \o SortTexts(ts \ {t})

\* groupby(col)['avgGPA'].mean(): one entry per value of col, in the order of
\* the values, rows with a NaN in col left out
MeanBy(rows, col) ==
    LET kept == SelectSeq(rows, LAMBDA r : ~isna(r[col]))
        members(k) == SelectSeq(kept, LAMBDA r : r[col] = k)
    IN  SeqMap(LAMBDA k : [key |-> k,
                           mean |-> [n |-> SumSeq(SeqMap(LAMBDA r : r.gpa, members(k))),
                                     d |-> Len(members(k))]],
               SortTexts({kept[i][col] : i \in DOMAIN kept}))

MeanBefore(a, b) == a.mean.n * b.mean.d > b.mean.n * a.mean.d

\* Series.sort_values(ascending=False); equal means keep their order
RECURSIVE SortMeans(_)
SortMeans(s) ==
    IF s = <<>> THEN <<>>
    ELSE LET i == CHOOSE x \in DOMAIN s :
                      /\ \A y \in DOMAIN s : ~MeanBefore(s[y], s[x])
                      /\ \A y \in 1..(x - 1) : MeanBefore(s[x], s[y])
         IN  <<s[i]>> \o SortMeans(SubSeq(s, 1, i - 1) \o SubSeq(s, i + 1, Len(s)))

\* lines 31-38 and 42-48: the summary printed, or "No records found"
Summary(rows, filterCol, pat, groupCol) ==
    LET found == SelectSeq(rows, LAMBDA r : StrContains(r[filterCol], pat))
    IN  IF found = <<>> THEN None ELSE Some(SortMeans(MeanBy(found, groupCol)))

\* lookup.load_data, lines 7-14
load_data ==
    /\ pc = "load_data"
    /\ IF ~gradeExists
       THEN /\ error' = "NotFound"
            /\ ret' = None
            /\ pc' = "loaded"
       ELSE IF StrRaises(gradeFile, "instructor") \/ StrRaises(gradeFile, "course")
       THEN /\ error' = "AttributeError"
            /\ ret' = ret
            /\ pc' = "raised"
       ELSE /\ error' = error
            /\ ret' = Some(StripNames(gradeFile))
            /\ pc' = "loaded"
    /\ UNCHANGED <<gradeExists, rmpExists, gradeFile, rmpFile, df, rmpCols, arg, others>>

\* lookup.search, lines 17-18
search ==
    /\ pc = "loaded"
    /\ IF ret = None
       THEN /\ df' = df
            /\ pc' = "returned"
       ELSE /\ df' = ret.value
            /\ pc' = "menu"
    /\ UNCHANGED <<gradeExists, rmpExists, gradeFile, rmpFile, rmpCols, error, arg, ret, others>>

CourseQueries == { <<"1","2","0","a">>, <<"1","0">>, <<"9">> }
NameQueries == { <<"l","e","e">>, <<"S","O","L","I","S">>, <<"x">> }

\* lines 28-38: choice '1'
SearchByCourse ==
    /\ pc = "menu"
    /\ \E c_num \in CourseQueries :
           /\ arg' = Upper(c_num)
           /\ ret' = Summary(df, "course", Upper(c_num), "instructor")
    /\ UNCHANGED <<pc, gradeExists, rmpExists, gradeFile, rmpFile, df, rmpCols, error, others>>

\* lines 40-48: choice '2'
SearchByProfessor ==
    /\ pc = "menu"
    /\ \E name \in NameQueries :
           /\ arg' = Upper(name)
           /\ ret' = Summary(df, "instructor", Upper(name), "course")
    /\ UNCHANGED <<pc, gradeExists, rmpExists, gradeFile, rmpFile, df, rmpCols, error, others>>

\* lines 50-51: choice '3' (any other choice shows the menu again)
ExitMenu ==
    /\ pc = "menu"
    /\ pc' = "exited"
    /\ UNCHANGED <<gradeExists, rmpExists, gradeFile, rmpFile, df, rmpCols, error, arg, ret, others>>

NextLookup ==
    \/ load_data
    \/ search
    \/ SearchByCourse
    \/ SearchByProfessor
    \/ ExitMenu

LEE_K_padded == <<" ","L","E","E"," ","K"," ">>

\* A grade file of the registrar: two instructors, a padded name, a row
\* without a name
LookupPool ==
    { Grade(SOLIS_J, FALL, 2024, PSTAT_120A, 30, Counts(5, 2, 0, 0, 0)),
      Grade(LEE_K_padded, FALL, 2024, PSTAT_120A, 36, Counts(3, 4, 1, 0, 0)),
      Grade(LEE_K, WINTER, 2024, PSTAT_10, 25, Counts(1, 2, 3, 0, 0)),
      Grade(NaNText, FALL, 2023, PSTAT_10, 37, Counts(6, 0, 0, 0, 0)) }

\* The dashboard's loader and the lookup tool, each started on a file system
\* with or without the grade file
InitLoad ==
    /\ pc \in {"start", "load_data"}
    /\ gradeExists \in BOOLEAN
    /\ rmpExists = FALSE
    /\ gradeFile \in (IF gradeExists THEN SeqsUpTo(LookupPool, MaxGrades) ELSE {<<>>})
    /\ rmpFile = <<>>
    /\ df = <<>>
    /\ rmpCols = FALSE
    /\ error = "none"
    /\ arg = NoHelper
    /\ ret = NoHelper
    /\ NoOthers

NextLoad == Next \/ NextLookup

SpecLoad == InitLoad /\ [][NextLoad]_vars

\* ---- the text normalization: main_app.py lines 70-72

MaxTextLen == 4

TextChars == {"a", "B", " ", "\t"}

\* The cells of a text column: texts with blanks at the ends and inside, and
\* the missing cell
TextArgs == UNION {[1..k -> TextChars] : k \in 0..MaxTextLen} \cup {NaNText}

\* The normalization of a cell, and of the normalized cell again
CallNormalize ==
    /\ pc = "call_normalize"
    /\ Return("ret_normalize", [once |-> NormalizeText(arg),
                                twice |-> NormalizeText(NormalizeText(arg))])

SpecNormalize == InitHelper("call_normalize", TextArgs) /\ [][CallNormalize]_vars

(***************************************************************************)
(* Grade files with pass/no-pass sections                                  *)
(***************************************************************************)

\* Letter-graded sections, and sections exported with avgGPA 0 and no letter
\* counts, of the same course, instructor and term and of another
PassNoPassPool ==
    { Grade(SOLIS_J, FALL, 2024, PSTAT_120A, 30, Counts(5, 2, 0, 0, 0)),
      Grade(SOLIS_J, FALL, 2024, PSTAT_120A, 36, Counts(3, 4, 1, 0, 0)),
      Grade(SOLIS_J, FALL, 2024, PSTAT_120A, 0, Counts(0, 0, 0, 0, 0)),
      Grade(LEE_K, WINTER, 2024, PSTAT_10, 0, Counts(0, 0, 0, 0, 0)) }

InitPassNoPass ==
    InitFiles(SeqsUpTo(PassNoPassPool, MaxGrades),
              {<<Rating(KAI_LEE, 40, 25, 70, "hilarious", "rmp/4")>>})

SpecPassNoPass == InitPassNoPass /\ [][Next]_vars

(***************************************************************************)
(* main(): the dashboard sessions.  Every session runs the script from the *)
(* top on each interaction; st.session_state lasts from run to run, the    *)
(* locals of main() last one run.  The memoized result of                  *)
(* load_and_clean_data is df once pc = "done"; st.cache_data hands each    *)
(* call its own copy of it.                                                *)
(***************************************************************************)

MaxSessions == 2

Sessions == 1..MaxSessions

CS == <<"C","S">>
CMPSC == <<"C","M","P","S","C">>

\* str.replace(old, new), old not empty
RECURSIVE Replace(_, _, _)
Replace(s, old, new) ==
    IF Len(s) < Len(old) THEN s
    ELSE IF SubSeq(s, 1, Len(old)) = old
         THEN new \o Replace(SubSeq(s, Len(old) + 1, Len(s)), old, new)
         ELSE <<Head(s)>> \o Replace(Tail(s), old, new)

\* line 148: sorted(full_df['dept'].unique().tolist())
all_depts(full_df) == SortTexts({full_df[i].dept : i \in DOMAIN full_df})

\* lines 159-166
FilterData(full_df, selected_dept, course_q, prof_q) ==
    LET byDept == IF selected_dept # <<" ">>
                  THEN SelectSeq(full_df, LAMBDA r : r.dept = selected_dept)
                  ELSE full_df
        query == Replace(course_q, CS, CMPSC)
        byCourse == IF course_q # <<>>
                    THEN SelectSeq(byDept, LAMBDA r : StrContains(r.course, query))
                    ELSE byDept
    IN  IF prof_q # <<>>
        THEN SelectSeq(byCourse, LAMBDA r : StrContains(r.instructor, prof_q))
        ELSE byCourse

\* line 171
prof_history(full_df, prof_key) == SelectSeq(full_df, LAMBDA r : r.join_key = prof_key)

PairLess(p, q) == TextLess(p[1], q[1]) \/ (p[1] = q[1] /\ TextLess(p[2], q[2]))

RECURSIVE SortPairs(_)
SortPairs(ps) ==
    IF ps = {} THEN <<>>
    ELSE LET p == CHOOSE x \in ps : \A y \in ps \ {x} : PairLess(x, y)
         IN  <<p>> \o SortPairs(ps \ {p})

\* The sum of the fractions n/d of a column of means
RECURSIVE SumFractions(_)
SumFractions(s) ==
    IF s = <<>> THEN [n |-> 0, d |-> 1]
    ELSE LET rest == SumFractions(Tail(s))
         IN  [n |-> Head(s).n * rest.d + rest.n * Head(s).d, d |-> Head(s).d * rest.d]

\* '{:,.2f}'.format of a mean of GPAs, in hundredths
Format2(mean) == (20 * mean.n + mean.d) \div (2 * mean.d)

\* lines 203-204: per (course, dept) the mean of the rows' GPAs, formatted, and
\* the number of rows
CourseHistory(history) ==
    LET members(p) == SelectSeq(history, LAMBDA r : <<r.course, r.dept>> = p)
        mean(p) == [n |-> SumFractions(SeqMap(LAMBDA r : r.gpa, members(p))).n,
                    d |-> SumFractions(SeqMap(LAMBDA r : r.gpa, members(p))).d * Len(members(p))]
    IN  SeqMap(LAMBDA p : [course |-> p[1], dept |-> p[2],
                           AvgGPA |-> Format2(mean(p)), Sections |-> Len(members(p))],
               SortPairs({<<history[i].course, history[i].dept>> : i \in DOMAIN history}))

\* line 209: sort_values(by=['year', 'q_score']), ascending; rows of one term
\* keep their order
RECURSIVE SortAscending(_)
SortAscending(rows) ==
    IF rows = <<>> THEN <<>>
    ELSE LET i == CHOOSE x \in DOMAIN rows :
                      /\ \A y \in DOMAIN rows : ~TermBefore(rows[x], rows[y])
                      /\ \A y \in 1..(x - 1) : TermBefore(rows[y], rows[x])
         IN  <<rows[i]>> \o SortAscending(SubSeq(rows, 1, i - 1) \o SubSeq(rows, i + 1, Len(rows)))

\* lines 209-210: the copy of the history, sorted, with its label column
TrendFrame(history) ==
    SeqMap(LAMBDA r : [quarter |-> r.quarter, year |-> r.year, course |-> r.course,
                       gpa |-> r.gpa, q_score |-> r.q_score,
                       label |-> r.quarter \o <<" ">> \o Decimal(r.year)],
           SortAscending(history))

\* line 217: data.head(25)
HeadRows == 25
FirstRows(rows) == SubSeq(rows, 1, IF Len(rows) < HeadRows THEN Len(rows) ELSE HeadRows)


\* A session before its first run: nothing in st.session_state, the widgets
\* at their defaults
NewSession ==
    [pc |-> "new", dept_persist |-> <<" ">>, course_persist |-> <<>>, prof_persist |-> <<>>,
     prof_view |-> None, full_df |-> <<>>, data |-> <<>>, shown |-> None]

\* The end of a script run: the locals of main() are gone
EndOfRun(session) == [session EXCEPT !.pc = "idle", !.full_df = <<>>, !.data = <<>>, !.shown = None]

\* What the user has in the three sidebar widgets when a run starts
FilterInputs ==
    { [dept |-> <<" ">>, course |-> <<>>, prof |-> <<>>],
      [dept |-> PSTAT, course |-> <<"1","0">>, prof |-> <<" ","l","e","e">>],
      [dept |-> <<" ">>, course |-> <<"c","s"," ">>, prof |-> <<>>] }

\* lines 91-94 and 147-151: the run gets its copy of the memoized table, sets
\* prof_view on the first run, and the widgets hold what the user chose
RunMain(s) ==
    /\ pc = "done"
    /\ sessions[s].pc \in {"new", "idle"}
    /\ \E f \in FilterInputs :
           /\ f.dept \in {<<" ">>} \cup Range(all_depts(df))
           /\ sessions' = [sessions EXCEPT ![s] =
                  [@ EXCEPT !.pc = "sidebar", !.full_df = df,
                            !.dept_persist = f.dept, !.course_persist = f.course,
                            !.prof_persist = f.prof]]
    /\ UNCHANGED <<pc, gradeExists, rmpExists, gradeFile, rmpFile, df, rmpCols, error, arg, ret,
                   inputCsv, results, outputCsv>>

\* lines 153-157: "Clear All" was clicked.  The three keys are reset and the
\* script reruns; or, the widgets of these keys being instantiated already,
\* Streamlit refuses the assignment (StreamlitAPIException) and the run ends
\* with the filters as they were.
ClearAll(s) ==
    /\ sessions[s].pc = "sidebar"
    /\ \/ sessions' = [sessions EXCEPT ![s] =
              EndOfRun([@ EXCEPT !.dept_persist = <<" ">>, !.course_persist = <<>>,
                                 !.prof_persist = <<>>])]
       \/ sessions' = [sessions EXCEPT ![s] = EndOfRun(@)]
    /\ UNCHANGED <<pc, gradeExists, rmpExists, gradeFile, rmpFile, df, rmpCols, error, arg, ret,
                   inputCsv, results, outputCsv>>

\* lines 150-151, 159-166
Filter(s) ==
    /\ sessions[s].pc = "sidebar"
    /\ sessions' = [sessions EXCEPT ![s] =
           [@ EXCEPT !.pc = "filtered",
                     !.data = FilterData(sessions[s].full_df, sessions[s].dept_persist,
                                         Upper(Strip(sessions[s].course_persist)),
                                         Upper(Strip(sessions[s].prof_persist)))]]
    /\ UNCHANGED <<pc, gradeExists, rmpExists, gradeFile, rmpFile, df, rmpCols, error, arg, ret,
                   inputCsv, results, outputCsv>>

\* lines 169-211 with the grade trend sorted and labelled in full_df itself
\* (sort_values(inplace=True) and the label column on full_df, no copy)
ProfessorProfileInPlace(s) ==
    /\ sessions[s].pc = "filtered"
    /\ ~sessions[s].prof_view.none
    /\ LET history == prof_history(sessions[s].full_df, sessions[s].prof_view.value)
       IN  sessions' = [sessions EXCEPT ![s] =
               [@ EXCEPT !.pc = "shown",
                         !.full_df = TrendFrame(sessions[s].full_df),
                         !.shown = IF history = <<>> THEN None
                                   ELSE Some([rmp |-> history[1],
                                              history |-> CourseHistory(history),
                                              trend_df |-> TrendFrame(history)])]]
    /\ UNCHANGED <<pc, gradeExists, rmpExists, gradeFile, rmpFile, df, rmpCols, error, arg, ret,
                   inputCsv, results, outputCsv>>

\* lines 169-211: the profile of the professor prof_view names (the header and
\* ratings of the first row, the course history, the grade trend), or "Back to
\* Search" was clicked: prof_view is reset and the script reruns
ProfessorProfile(s) ==
    /\ sessions[s].pc = "filtered"
    /\ ~sessions[s].prof_view.none
    /\ LET history == prof_history(sessions[s].full_df, sessions[s].prof_view.value)
       IN  \/ sessions' = [sessions EXCEPT ![s] = EndOfRun([@ EXCEPT !.prof_view = None])]
           \/ sessions' = [sessions EXCEPT ![s] =
                  [@ EXCEPT !.pc = "shown",
                            !.shown = IF history = <<>> THEN None
                                      ELSE Some([rmp |-> history[1],
                                                 history |-> CourseHistory(history),
                                                 trend_df |-> TrendFrame(history)])]]
    /\ UNCHANGED <<pc, gradeExists, rmpExists, gradeFile, rmpFile, df, rmpCols, error, arg, ret,
                   inputCsv, results, outputCsv>>

\* lines 214-236: the cards of the first rows of data, or the button of one
\* of them was clicked: prof_view is its join_key and the script reruns
SearchResults(s) ==
    /\ sessions[s].pc = "filtered"
    /\ sessions[s].prof_view.none
    /\ LET rows == FirstRows(sessions[s].data)
       IN  \/ \E idx \in DOMAIN rows :
                  sessions' = [sessions EXCEPT ![s] =
                      EndOfRun([@ EXCEPT !.prof_view = Some(rows[idx].join_key)])]
           \/ sessions' = [sessions EXCEPT ![s] = [@ EXCEPT !.pc = "shown", !.shown = Some(rows)]]
    /\ UNCHANGED <<pc, gradeExists, rmpExists, gradeFile, rmpFile, df, rmpCols, error, arg, ret,
                   inputCsv, results, outputCsv>>

\* The script ran to its end
EndRun(s) ==
    /\ sessions[s].pc = "shown"
    /\ sessions' = [sessions EXCEPT ![s] = EndOfRun(@)]
    /\ UNCHANGED <<pc, gradeExists, rmpExists, gradeFile, rmpFile, df, rmpCols, error, arg, ret,
                   inputCsv, results, outputCsv>>

NextSession ==
    \E s \in Sessions :
        \/ RunMain(s)
        \/ ClearAll(s)
        \/ Filter(s)
        \/ ProfessorProfile(s)
        \/ SearchResults(s)
        \/ EndRun(s)

DIAZ_A == <<"D","I","A","Z"," ","A">>
CMPSC_8 == <<"C","M","P","S","C"," ","8">>

\* The grade file the sessions' table is loaded from: two departments, an
\* instructor with two terms of one course
SessionGrades ==
    << Grade(LEE_K, FALL, 2023, PSTAT_10, 35, Counts(4, 3, 2, 1, 0)),
       Grade(SOLIS_J, FALL, 2024, PSTAT_120A, 30, Counts(5, 2, 0, 0, 0)),
       [Grade(DIAZ_A, FALL, 2024, CMPSC_8, 32, Counts(6, 2, 1, 0, 0)) EXCEPT !.dept = CMPSC],
       Grade(LEE_K, WINTER, 2024, PSTAT_10, 25, Counts(1, 2, 3, 0, 0)) >>

InitSessions ==
    /\ pc = "start"
    /\ gradeExists = TRUE
    /\ rmpExists = TRUE
    /\ gradeFile = SessionGrades
    /\ rmpFile = <<Rating(KAI_LEE, 40, 25, 70, "hilarious", "rmp/4")>>
    /\ df = <<>>
    /\ rmpCols = FALSE
    /\ error = "none"
    /\ arg = NoHelper
    /\ ret = NoHelper
    /\ sessions = [s \in Sessions |-> NewSession]
    /\ inputCsv = <<>>
    /\ results = <<>>
    /\ outputCsv = NoFile

NextSessions == Next \/ NextSession

SpecSessions == InitSessions /\ [][NextSessions]_vars

\* ---- the identity keys of any name: main_app.py lines 44-52

PunctChars == {"o", "B", "'", ",", "-", "."}
PunctTokens == UNION {[1..k -> PunctChars] : k \in 1..MaxNameLen}

\* Names of one token and of two, with apostrophes, commas, hyphens and
\* periods in them, the blank name and the missing one
NameArgs ==
    PunctTokens
    \cup {a \o <<" ">> \o b : a \in PunctTokens, b \in PunctTokens}
    \cup {BLANK, NaNText}

\* Both key functions on one name
CallKeysOfName ==
    /\ pc = "call_name"
    /\ IF KeyRaises(arg)
       THEN /\ pc' = "raised"
            /\ error' = "IndexError"
            /\ UNCHANGED <<gradeExists, rmpExists, gradeFile, rmpFile, df, rmpCols, arg, ret, others>>
       ELSE Return("ret_name", [registrar |-> get_registrar_key(arg),
                                rmp |-> get_rmp_key(arg)])

SpecNames == InitHelper("call_name", NameArgs) /\ [][CallKeysOfName]_vars

(***************************************************************************)
(* rmp_deep_miner.py: mine_professor_details and main                      *)
(***************************************************************************)

MaxProfessors == 3

\* rmp_tag_list (four of its sixteen keywords, in its order)
rmp_tag_list == << <<"Tough Grader">>, <<"Respected">>, <<"Hilarious">>, <<"Caring">> >>

\* line 18
DefaultDetails ==
    [rmp_tags |-> <<"None">>, rmp_difficulty |-> <<"N/A">>, rmp_take_again |-> <<"N/A">>]

\* What a professor's page can hold: the FeedbackNumber texts, the keywords in
\* its text, the texts of its TagBubble elements in the order list(set(tags))
\* happens to give them
Pages ==
    { [stats |-> << <<"85%">>, <<"3.2">> >>, text |-> { <<"Hilarious">>, <<"Caring">> },
       bubbles |-> <<>>],
      [stats |-> << <<"4.1">> >>, text |-> {},
       bubbles |-> << <<"GET READY TO READ">>, <<"SKIP CLASS">> >>],
      [stats |-> << <<"4.1">> >>, text |-> {},
       bubbles |-> << <<"SKIP CLASS">>, <<"GET READY TO READ">> >>] }

\* lines 28-31
WithStats(data, page) ==
    IF Len(page.stats) >= 2
    THEN [data EXCEPT !.rmp_take_again = page.stats[1], !.rmp_difficulty = page.stats[2]]
    ELSE data

\* lines 35-53
WithTags(data, page) ==
    LET found == SelectSeq(rmp_tag_list, LAMBDA tag : tag \in page.text)
    IN  IF found # <<>> THEN [data EXCEPT !.rmp_tags = JoinWith(found, <<", ">>)]
        ELSE IF page.bubbles # <<>>
             THEN [data EXCEPT !.rmp_tags = JoinWith(page.bubbles, <<", ">>)]
             ELSE data

\* What one call of mine_professor_details can come to: the page is read
\* ("ok"), page.goto raises ("goto"), page.evaluate raises after the stats
\* were taken ("evaluate"), or the browser is gone and new_context or
\* page.close raises outside the try ("browser")
Outcomes == {"ok", "goto", "evaluate", "browser"}

\* lines 18-60: the dictionary returned, where the call returns
mine_professor_details(outcome, page) ==
    CASE outcome = "ok" -> WithTags(WithStats(DefaultDetails, page), page)
      [] outcome = "evaluate" -> WithStats(DefaultDetails, page)
      [] OTHER -> DefaultDetails

\* line 56, url[-5:] in the handler: a cell without a url is a float, and
\* subscripting it raises TypeError
HandlerRaises(url) == url = NaNAtom

\* line 89: {**row.to_dict(), **details}
Combined(row, details) ==
    [instructor |-> row.instructor, rmp_rating |-> row.rmp_rating, rmp_url |-> row.rmp_url,
     rmp_tags |-> details.rmp_tags, rmp_difficulty |-> details.rmp_difficulty,
     rmp_take_again |-> details.rmp_take_again]

\* lines 64-83: without the input file main prints and returns
StartMine ==
    /\ pc = "main"
    /\ IF inputCsv.exists
       THEN /\ results' = <<>>
            /\ pc' = "mining"
       ELSE /\ results' = results
            /\ pc' = "returned"
    /\ UNCHANGED <<gradeExists, rmpExists, gradeFile, rmpFile, df, rmpCols, error, arg, ret,
                   sessions, inputCsv, outputCsv>>

\* lines 84-86: the next row's page is mined.  A cell without a url cannot be
\* fetched; an exception in the try reaches the handler, which raises in its
\* turn when the url is no text.
MineProfessor ==
    /\ pc = "mining"
    /\ Len(results) < Len(inputCsv.rows)
    /\ LET row == inputCsv.rows[Len(results) + 1]
       IN  \E outcome \in Outcomes, page \in Pages :
               /\ row.rmp_url = NaNAtom => outcome \in {"goto", "browser"}
               /\ arg' = [row |-> row, outcome |-> outcome]
               /\ IF outcome = "browser"
                  THEN /\ pc' = "raised"
                       /\ error' = "Error"
                       /\ ret' = ret
                  ELSE IF outcome \in {"goto", "evaluate"} /\ HandlerRaises(row.rmp_url)
                  THEN /\ pc' = "raised"
                       /\ error' = "TypeError"
                       /\ ret' = ret
                  ELSE /\ pc' = "mined"
                       /\ error' = error
                       /\ ret' = mine_professor_details(outcome, page)
    /\ UNCHANGED <<gradeExists, rmpExists, gradeFile, rmpFile, df, rmpCols, sessions,
                   inputCsv, results, outputCsv>>

\* lines 88-93: the combined row is appended and all the rows so far are
\* written to the output file
SaveResults ==
    /\ pc = "mined"
    /\ results' = Append(results, Combined(arg.row, ret))
    /\ outputCsv' = File(results')
    /\ pc' = "mining"
    /\ UNCHANGED <<gradeExists, rmpExists, gradeFile, rmpFile, df, rmpCols, error, arg, ret,
                   sessions, inputCsv>>

\* lines 84, 95-96: no row is left
FinishMine ==
    /\ pc = "mining"
    /\ Len(results) = Len(inputCsv.rows)
    /\ pc' = "mine_done"
    /\ UNCHANGED <<gradeExists, rmpExists, gradeFile, rmpFile, df, rmpCols, error, arg, ret,
                   sessions, inputCsv, results, outputCsv>>

NextMine ==
    \/ StartMine
    \/ MineProfessor
    \/ SaveResults
    \/ FinishMine

\* Rows of data/rmp_search_results.csv: a professor with a profile url, and
\* one whose url cell is empty
SearchResultPool ==
    { [instructor |-> JORGE_SOLIS, rmp_rating |-> 30, rmp_url |-> "rmp/1"],
      [instructor |-> KAI_LEE, rmp_rating |-> 40, rmp_url |-> "rmp/4"],
      [instructor |-> ANA_DIAZ, rmp_rating |-> 50, rmp_url |-> NaNAtom] }

\* An output file a run before this one left
EarlierOutput ==
    File(<<Combined([instructor |-> JUAN_SOLIS, rmp_rating |-> 45, rmp_url |-> "rmp/2"],
                    DefaultDetails)>>)

InitMine ==
    /\ pc = "main"
    /\ inputCsv \in {NoFile} \cup {File(rows) : rows \in SeqsUpTo(SearchResultPool, MaxProfessors)}
    /\ outputCsv \in {NoFile, EarlierOutput}
    /\ results = <<>>
    /\ sessions = <<>>
    /\ arg = NoHelper
    /\ ret = NoHelper
    /\ gradeExists = FALSE
    /\ rmpExists = FALSE
    /\ gradeFile = <<>>
    /\ rmpFile = <<>>
    /\ df = <<>>
    /\ rmpCols = FALSE
    /\ error = "none"

SpecMine == InitMine /\ [][NextMine]_vars

(***************************************************************************)
(* Properties                                                              *)
(***************************************************************************)

RECURSIVE SumOver(_, _)
SumOver(S, f) ==
    IF S = {} THEN 0
    ELSE LET x == CHOOSE y \in S : TRUE IN f[x] + SumOver(S \ {x}, f)

\* The grade rows that pass the course filter, by their position in the file
KeptGrades == {i \in DOMAIN gradeFile : KeepCourse(gradeFile[i].course)}

\* (instructor, term, course, department) of a grade row and of an output row
GradeTuple(g) ==
    <<NormalizeText(g.instructor), NormalizeText(g.quarter), g.year,
      NormalizeText(g.course), NormalizeText(g.dept)>>
RowTuple(r) == <<r.instructor, r.quarter, r.year, r.course, r.dept>>

SectionsOf(t) == {i \in KeptGrades : GradeTuple(gradeFile[i]) = t}

\* Output row r is the aggregate of the grade rows of tuple t, each counted once
AggregatesOnce(r, t) ==
    /\ r.gpa.n * Cardinality(SectionsOf(t)) =
           SumOver(SectionsOf(t), [i \in SectionsOf(t) |-> gradeFile[i].gpa]) * r.gpa.d
    /\ \A l \in Letters :
           r.letters[l] = SumOver(SectionsOf(t), [i \in SectionsOf(t) |-> gradeFile[i].letters[l]])

OneRowPerTuple ==
    \A i \in KeptGrades :
        LET t == GradeTuple(gradeFile[i])
            rows == {j \in DOMAIN df : RowTuple(df[j]) = t}
        IN  /\ Cardinality(rows) = 1
            /\ \A j \in rows : AggregatesOnce(df[j], t)

NoRating(r) ==
    /\ r.rmp_rating = NaNNum
    /\ r.rmp_difficulty = NaNNum
    /\ r.rmp_take_again = NaNNum
    /\ r.rmp_tags = NaNAtom
    /\ r.rmp_url = NaNAtom

\* Adjacent rows are in (year, q_score) descending order
SortedByTerm ==
    \A i \in 1..(Len(df) - 1) :
        \/ df[i].year > df[i + 1].year
        \/ df[i].year = df[i + 1].year /\ df[i].q_score >= df[i + 1].q_score

HasTerm(r, quarter, year) == r.quarter = quarter /\ r.year = year

\* C1: the left join of the grade rows to the rating rows yields exactly as
\* many rows as there are grade rows going into it, whatever the rating file
\* holds (several rating rows of one key included).
C1_JoinKeepsRowCount ==
    (pc = "merged" /\ rmpExists) => Len(df) = Cardinality(KeptGrades)

\* C2: for every (instructor, term, course, department) of the grade rows the
\* output holds exactly one row, whose avgGpa is the mean of the member rows'
\* and whose letter counts are their sums, every grade row counted once,
\* whatever the rating file holds.
C2_AggregatesEachRowOnce ==
    pc = "done" => OneRowPerTuple

\* C3: the course filter keeps a label exactly when it has digits and its first
\* run of digits n is below 198 (99 kept, 198 excluded, no digits excluded), in
\* main_app.py and in pstat_logic.py alike.
C3_CourseBoundaries ==
    pc = "ret_course" =>
        /\ ret.kept <=> (arg.num # NoCourseNum /\ arg.num < 198)
        /\ ret.pstat <=> (arg.num # NoCourseNum /\ arg.num < 198)

\* C4: for a last name L and a first name F (one token each) and any middle
\* names, the key get_registrar_key gives "L <initial of F>" equals the key
\* get_rmp_key gives "F [middle ...] L", and both are L in upper case followed
\* by the initial of F (as the keys spell it, in upper case).
C4_KeysCoincide ==
    pc = "ret_keys" =>
        /\ ret.registrar = ret.rmp
        /\ ret.registrar = Upper(arg.last) \o <<UpperChar(arg.first[1])>>

\* C4 witness: a rating name with a middle name and a last name not in upper
\* case got the key of the grade name.
C4_Witness ==
    /\ pc = "ret_keys"
    /\ arg.middle # <<>>
    /\ arg.last # Upper(arg.last)
    /\ ret.rmp = ret.registrar

\* C5 as stated: the returned table is sorted by (TermKey descending, avgGpa
\* descending): of two adjacent rows the earlier has the later term, or the
\* same term and an avgGpa at least the later row's.
C5_SortedByTermThenGpa ==
    pc = "done" =>
        \A i \in 1..(Len(df) - 1) :
            \/ df[i].year > df[i + 1].year
            \/ df[i].year = df[i + 1].year /\ df[i].q_score > df[i + 1].q_score
            \/ /\ df[i].year = df[i + 1].year
               /\ df[i].q_score = df[i + 1].q_score
               /\ df[i].gpa.n * df[i + 1].gpa.d >= df[i + 1].gpa.n * df[i].gpa.d

\* C5 amended: the returned table is sorted by (year descending, q_score
\* descending) alone; FALL 2024 precedes WINTER 2024, which precedes FALL 2023.
C5_SortedByTermOnly ==
    pc = "done" =>
        /\ SortedByTerm
        /\ \A i, j \in DOMAIN df :
               \/ HasTerm(df[i], FALL, 2024) /\ HasTerm(df[j], WINTER, 2024)
               \/ HasTerm(df[i], WINTER, 2024) /\ HasTerm(df[j], FALL, 2023)
               => i < j

\* C5 witness: a returned table with a FALL 2024, a WINTER 2024 and a FALL 2023
\* row, read from a file that lists them in another order.
C5_Witness ==
    /\ pc = "done"
    /\ Len(df) = 3
    /\ HasTerm(df[1], FALL, 2024)
    /\ HasTerm(df[2], WINTER, 2024)
    /\ HasTerm(df[3], FALL, 2023)
    /\ gradeFile[1].year = 2023

\* C6: in the sorted output every row with a known year and season comes
\* before every row with an unknown season or year, and a grade row whose term
\* is fully unparseable is in the output with the sentinel (year 0, rank 0),
\* after every resolved row.
C6_UnresolvedTermsLast ==
    pc = "done" =>
        /\ \A i, j \in DOMAIN df :
               (df[i].q_score > 0 /\ df[i].year # NaNNum
                /\ (df[j].q_score = 0 \/ df[j].year = NaNNum)) => i < j
        /\ \A g \in KeptGrades :
               (gradeFile[g].year = NaNNum /\ QScore(NormalizeText(gradeFile[g].quarter)) = 0)
               => \E j \in DOMAIN df :
                      /\ df[j].year = 0
                      /\ df[j].q_score = 0
                      /\ df[j].instructor = NormalizeText(gradeFile[g].instructor)

C8_HighestRatingAttached ==
    (pc = "done" /\ rmpExists) =>
        \A j \in DOMAIN df :
            LET same == {i \in DOMAIN rmpFile :
                            get_rmp_key(rmpFile[i].instructor) = df[j].join_key}
            IN  same # {} =>
                    \E b \in same :
                        /\ \A i \in same : rmpFile[i].rating <= rmpFile[b].rating
                        /\ df[j].rmp_rating = rmpFile[b].rating
                        /\ df[j].rmp_difficulty = rmpFile[b].difficulty
                        /\ df[j].rmp_take_again = rmpFile[b].take_again
                        /\ df[j].rmp_tags = rmpFile[b].tags
                        /\ df[j].rmp_url = rmpFile[b].url

MissingName(g) == isna(g.instructor) \/ Strip(g.instructor) = <<>>
MissingTerm(g) == g.year = NaNNum \/ QScore(NormalizeText(g.quarter)) = 0

\* C9: with grade rows whose instructor name is empty or blank, or whose term
\* is missing or unparseable, load_and_clean_data does not raise, and each such
\* row (that passes the course filter) is represented in the output.
C9_MalformedRowsKept ==
    /\ pc # "raised"
    /\ pc = "done" =>
           \A i \in KeptGrades :
               (MissingName(gradeFile[i]) \/ MissingTerm(gradeFile[i])) =>
                   \E j \in DOMAIN df :
                       /\ df[j].instructor = NormalizeText(gradeFile[i].instructor)
                       /\ df[j].quarter = NormalizeText(gradeFile[i].quarter)
                       /\ df[j].course = NormalizeText(gradeFile[i].course)
                       /\ df[j].dept = NormalizeText(gradeFile[i].dept)

\* C10: without the rating file load_and_clean_data does not fail: it returns
\* the grade rows aggregated (one row per tuple, each grade row counted once)
\* and sorted by term, and no row carries rating information.
C10_NoRatingFile ==
    (gradeExists /\ ~rmpExists) =>
        /\ pc \notin {"raised", "stopped"}
        /\ error = "none"
        /\ ~rmpCols
        /\ \A j \in DOMAIN df : NoRating(df[j])
        /\ pc = "done" =>
               /\ OneRowPerTuple
               /\ \A j \in DOMAIN df : \E i \in KeptGrades : GradeTuple(gradeFile[i]) = RowTuple(df[j])
               /\ SortedByTerm

\* C10 witness: the call returned without a rating file, the three sections
\* with GPAs 3.0, 3.6, 3.9 aggregated into one row of avgGpa 10.5/3, A=16, B=6.
C10_Witness ==
    /\ pc = "done"
    /\ gradeExists
    /\ ~rmpExists
    /\ Len(df) = 1
    /\ df[1].gpa = [n |-> 105, d |-> 3]
    /\ df[1].letters["a"] = 16
    /\ df[1].letters["b"] = 6

\* C11: when the grade file is absent, nothing of it is read or transformed
\* and the caller gets an error outcome, not an exception: load_and_clean_data
\* reports the missing file and halts the run, lookup.load_data reports it and
\* returns None, and search returns without entering its menu loop.
C11_MissingGradesStop ==
    ~gradeExists =>
        /\ df = <<>>
        /\ pc \in {"start", "stopped", "load_data", "loaded", "returned"}
        /\ pc = "stopped" => error = "MissingGrades"
        /\ pc \in {"loaded", "returned"} => (ret = None /\ error = "NotFound")

\* C11 witness: search returned on the None of load_data, no grade file there.
C11_Witness ==
    /\ pc = "returned"
    /\ ~gradeExists
    /\ ret = None
    /\ df = <<>>

\* The tokens of a text joined by single spaces
CollapseSpaces(s) ==
    LET tokens == Split(s) IN IF tokens = <<>> THEN <<>> ELSE JoinWith(tokens, <<" ">>)

\* C12: the normalization of a text cell is the cell trimmed, in upper case
\* and with each internal run of whitespace collapsed to one space, that of
\* a missing cell is the empty string, and normalizing a normalized value
\* returns it unchanged.
C12_NormalizeContract ==
    pc = "ret_normalize" =>
        /\ ret.once = (IF isna(arg) THEN <<>> ELSE CollapseSpaces(Upper(arg)))
        /\ ret.twice = ret.once

\* The part of C12 the code keeps: trimmed, upper case, idempotent
C12_TrimmedUpperIdempotent ==
    pc = "ret_normalize" =>
        /\ ret.once = Strip(ret.once)
        /\ ret.once = Upper(ret.once)
        /\ ret.twice = ret.once

\* A grade row with letter-graded students
LetterGraded(g) == \E l \in Letters : g.letters[l] > 0

\* C13: a grade row whose letter counts are all zero (exported with avgGPA 0)
\* does not change any aggregated avgGpa: the avgGpa of every output row is
\* the mean over the member rows that have letter-graded students.
C13_PassNoPassIgnored ==
    pc = "done" =>
        \A j \in DOMAIN df :
            LET graded == {i \in KeptGrades :
                              /\ GradeTuple(gradeFile[i]) = RowTuple(df[j])
                              /\ LetterGraded(gradeFile[i])}
            IN  graded # {} =>
                    df[j].gpa.n * Cardinality(graded) =
                        SumOver(graded, [i \in graded |-> gradeFile[i].gpa]) * df[j].gpa.d

\* C14: with the sessions running main() in any interleaving against the
\* memoized result of load_and_clean_data, no step of any session (filtering,
\* a professor's profile with its course history and grade trend, clearing
\* the filters) changes the table, and the table every session works on is
\* the loaded one: the same rows, in the same order, with the same values.
C14_SessionsShareTable ==
    [][pc = "done" =>
          /\ df' = df
          /\ \A s \in Sessions :
                 sessions'[s].pc \notin {"new", "idle"} => sessions'[s].full_df = df]_vars

\* C14 witness: against the loaded table one session shows a professor's
\* profile with a grade trend of two terms while another has filtered the
\* table down.
C14_Witness ==
    /\ pc = "done"
    /\ sessions[1].pc = "shown"
    /\ ~sessions[1].prof_view.none
    /\ ~sessions[1].shown.none
    /\ Len(sessions[1].shown.value.trend_df) = 2
    /\ sessions[2].pc = "filtered"
    /\ Len(sessions[2].data) \in 1..(Len(df) - 1)
    /\ sessions[2].full_df = df

\* The letters of a text, in order
OnlyLetters(s) == SelectSeq(s, LAMBDA c : c \in Range(UpperChars) \cup Range(LowerChars))

\* C15: for every name both key functions return a key of upper-case letters
\* only (commas, periods, hyphens and apostrophes of the name are not in it),
\* and the key of a name of one token is the last name alone, no initial.
\* (Stated of the names the functions return a key for; the blank name, for
\* which they raise, is the case of C9.)
C15_KeysAreLetters ==
    pc = "ret_name" =>
        /\ Range(ret.registrar) \subseteq Range(UpperChars)
        /\ Range(ret.rmp) \subseteq Range(UpperChars)
        /\ (~isna(arg) /\ Len(Split(arg)) = 1) =>
               /\ ret.registrar = OnlyLetters(Upper(Split(arg)[1]))
               /\ ret.rmp = ret.registrar

\* The part of C15 the code keeps: no lower-case letter in a key, and the key
\* of a name of one token is that token in upper case, no initial
C15_UpperCaseSingleToken ==
    pc = "ret_name" =>
        /\ Range(ret.registrar) \cap Range(LowerChars) = {}
        /\ Range(ret.rmp) \cap Range(LowerChars) = {}
        /\ (~isna(arg) /\ Len(Split(arg)) = 1) =>
               /\ ret.registrar = Upper(Split(arg)[1])
               /\ ret.rmp = ret.registrar

\* Output row k is the combined row of input row k
RowOfInput(out, k) ==
    /\ out.instructor = inputCsv.rows[k].instructor
    /\ out.rmp_rating = inputCsv.rows[k].rmp_rating
    /\ out.rmp_url = inputCsv.rows[k].rmp_url

\* C16: the professors are mined one at a time in input order, and after the
\* i-th iteration the output file holds exactly the combined rows of input
\* rows 1..i in input order; a failure while a professor's page is fetched is
\* caught inside mine_professor_details, gives the row the default fields
\* (rmp_tags "None", rmp_difficulty "N/A", rmp_take_again "N/A") and does not
\* stop the mining of the others; on completion the output file has exactly
\* one row per input row.  (The completion is stated of an input file with a
\* row at least: with none, nothing is written and the output file is what
\* it was.)
C16_MinedRowsPersisted ==
    /\ (pc \in {"mining", "mine_done"} /\ results # <<>>) =>
           /\ outputCsv = File(results)
           /\ Len(results) <= Len(inputCsv.rows)
           /\ \A k \in DOMAIN results : RowOfInput(outputCsv.rows[k], k)
    /\ (pc \in {"mined", "raised"} /\ arg.outcome = "goto") =>
           /\ pc = "mined"
           /\ ret = DefaultDetails
    /\ (pc = "mine_done" /\ inputCsv.rows # <<>>) =>
           /\ Len(outputCsv.rows) = Len(inputCsv.rows)
           /\ \A k \in DOMAIN outputCsv.rows : RowOfInput(outputCsv.rows[k], k)

====
